---- MODULE Spec2Model ----
(***************************************************************************)
(* Model of xtransmit/route.cpp: the forwarding loop route() and the       *)
(* reconnecting orchestrator xtransmit::route::run().                      *)
(*                                                                         *)
(* Time is the steady clock in ticks; seconds(1) is Second ticks.  A       *)
(* blocking call (read, write, connect, sleep_until, future::wait) is an   *)
(* action that is enabled only once the call can return.                   *)
(***************************************************************************)
EXTENDS Integers, Sequences, FiniteSets, TLC

\* ---- bounds of the model ------------------------------------------------
MaxIter == 3
MaxTime == 1
MaxQueue == 1
MaxMsgSize == 2

\* seconds(1) of route.cpp:100, in clock ticks
Second == 2

\* two byte values are enough to tell messages apart
Byte == {0, 1}
Sides == {"src", "dst"}
Dirs == {"fwd", "bkwd"}

\* route(src, dst, ...) is the forward loop, route(dst, src, ...) the backward one
SrcOf(d) == IF d = "fwd" THEN "src" ELSE "dst"
DstOf(d) == IF d = "fwd" THEN "dst" ELSE "src"
Other(d) == IF d = "fwd" THEN "bkwd" ELSE "fwd"

VARIABLES
    cfg,            \* const config& cfg
    traffic,        \* the messages the peers of the endpoints send in this run
    force_break,    \* const atomic_bool& force_break
    now,            \* steady_clock::now()
    tnow,           \* run(): const auto tnow
    next_reconnect, \* run(): steady_clock::time_point next_reconnect
    opc,            \* position of the thread that executes run()
    iter,           \* number of iterations of the do-while begun so far
    stats,          \* run(): unique_ptr<stats_writer> stats is non-null
    src_sock,       \* run(): shared_sock_t src_sock (listener slot)
    dst_sock,       \* run(): shared_sock_t dst_sock (listener slot)
    conn,           \* the sides whose endpoint (shared_sock src / dst) is alive
    thrown,         \* the exception in flight on the thread of run()
    lpc,            \* position of each route() call
    buffer,         \* route(): vector<char> buffer
    bytes_read,     \* route(): const size_t bytes_read
    bytes_sent,     \* route(): const int bytes_sent (-1: write() has not returned)
    event,          \* route(): the spdlog::info entry of the latest loop body
    inq,            \* per endpoint: messages received from the peer, not yet read
    pending,        \* per route(): the messages read whose write has not completed
    intact,         \* per route(): every write() so far put on the wire exactly the
                    \*              oldest message read and not yet written
    allFull,        \* per route(): every write() so far reported the full length
    added,          \* endpoints passed to add_socket and not yet to remove_socket
    raised,         \* where socket::exception was raised in this iteration
    logged,         \* which of them reached spdlog::error in this iteration
    connStart       \* the time at which the latest connection step began

vars == <<cfg, traffic, force_break, now, tnow, next_reconnect, opc, iter, stats,
          src_sock, dst_sock, conn, thrown, lpc, buffer, bytes_read, inq,
          bytes_sent, event, pending, intact, allFull, added, raised, logged, connStart>>

ovars == <<tnow, next_reconnect, iter, stats, src_sock, dst_sock, connStart>>
lvars == <<lpc, buffer, bytes_read, bytes_sent, event, pending, intact, allFull>>

\* ---- helpers ------------------------------------------------------------

\* all sequences over S of length lo..hi
SeqsOf(S, lo, hi) == UNION {[1..n -> S] : n \in lo..hi}

\* the messages a peer can send that fit a buffer of the given size
Payloads(size) == SeqsOf(Byte, 1, size)

\* vector<char> buffer(cfg.message_size): value-initialised
ZeroBuffer(size) == [i \in 1..size |-> 0]

\* ReadInto with the message stored one position too far
ReadIntoShifted(buf, msg) ==
    [i \in 1..Len(buf) |-> IF 1 < i /\ i <= Len(msg) + 1 THEN msg[i - 1] ELSE buf[i]]

\* read(mutable_buffer(buffer.data(), buffer.size())): the message overwrites
\* the head of the buffer, the tail keeps what was there
ReadInto(buf, msg) ==
    [i \in 1..Len(buf) |-> IF i <= Len(msg) THEN msg[i] ELSE buf[i]]

\* const_buffer(buffer.data(), bytes_read)
ConstBuffer(buf, n) == SubSeq(buf, 1, n)

Running(d) == lpc[d] \in {"test", "read", "write"}

\* socket id of the endpoint of a side in the current iteration
Id(side) == <<iter, side>>

\* cfg.stats_file != "" && cfg.stats_freq_ms > 0
WriteStats(c) == c.stats_file # "" /\ c.stats_freq_ms > 0

RunConfigs ==
    [message_size : {1}, bidir : BOOLEAN, reconnect : BOOLEAN,
     stats_file : {"", "stats.csv"}, stats_freq_ms : {1000}]

RouteConfigs ==
    [message_size : 1..MaxMsgSize, bidir : {FALSE}, reconnect : {FALSE},
     stats_file : {""}, stats_freq_ms : {0}]

DuplexConfigs ==
    [message_size : {1}, bidir : {TRUE}, reconnect : {FALSE},
     stats_file : {""}, stats_freq_ms : {0}]

\* ---- initial states -----------------------------------------------------

InitCommon ==
    /\ force_break = FALSE
    /\ now = 0
    /\ tnow = 0
    /\ next_reconnect = now
    /\ stats = FALSE
    /\ src_sock = "empty"
    /\ dst_sock = "empty"
    /\ thrown = "none"
    /\ bytes_read = [d \in Dirs |-> 0]
    /\ bytes_sent = [d \in Dirs |-> -1]
    /\ event = [d \in Dirs |-> "none"]
    /\ inq = [s \in Sides |-> <<>>]
    /\ pending = [d \in Dirs |-> <<>>]
    /\ intact = [d \in Dirs |-> TRUE]
    /\ allFull = [d \in Dirs |-> TRUE]
    /\ added = {}
    /\ raised = {}
    /\ logged = {}

\* run() has been called and is about to enter the do-while
Init ==
    /\ InitCommon
    /\ cfg \in RunConfigs
    /\ traffic = {ZeroBuffer(cfg.message_size)}
    /\ opc = "iter_top"
    /\ iter = 0
    /\ conn = {}
    /\ lpc = [d \in Dirs |-> "idle"]
    /\ buffer = [d \in Dirs |-> <<>>]
    /\ connStart = -1

\* route(src, dst, cfg, "[SRC->DST]", force_break) has been entered
InitRoute ==
    /\ InitCommon
    /\ cfg \in RouteConfigs
    /\ traffic = Payloads(cfg.message_size)
    /\ opc = "route"
    /\ iter = 1
    /\ conn = Sides
    /\ lpc = [d \in Dirs |-> IF d = "fwd" THEN "test" ELSE "idle"]
    /\ buffer = [d \in Dirs |-> IF d = "fwd" THEN ZeroBuffer(cfg.message_size) ELSE <<>>]
    /\ connStart = 0

\* lines 122-126 have been executed with cfg.bidir: both route() calls have
\* been entered, each in its own thread
InitDuplex ==
    /\ InitCommon
    /\ cfg \in DuplexConfigs
    /\ traffic = Payloads(cfg.message_size)
    /\ opc = "route"
    /\ iter = 1
    /\ conn = Sides
    /\ lpc = [d \in Dirs |-> "test"]
    /\ buffer = [d \in Dirs |-> ZeroBuffer(cfg.message_size)]
    /\ connStart = 0

\* ---- environment --------------------------------------------------------

\* the caller requests shutdown; the flag is never reset
Cancel ==
    /\ ~force_break
    /\ force_break' = TRUE
    /\ UNCHANGED <<cfg, traffic, now, opc, conn, thrown, inq, added, raised, logged>>
    /\ UNCHANGED ovars
    /\ UNCHANGED lvars

\* The steady clock advances.  run() reads it at lines 96 and 98 only, so the
\* model lets it advance where the next step of run() reads it; it is capped
\* once no deadline lies ahead.
Tick ==
    /\ opc \in {"iter_top", "sleep"}
    /\ now < MaxTime \/ now < next_reconnect
    /\ now' = now + 1
    /\ UNCHANGED <<cfg, traffic, force_break, opc, conn, thrown, inq, added, raised, logged>>
    /\ UNCHANGED ovars
    /\ UNCHANGED lvars

\* the direction that reads from the endpoint of a side
ReaderOf(s) == IF s = "src" THEN "fwd" ELSE "bkwd"

\* the peer of a connected endpoint sends one message that fits the buffer
\* (data arriving at an endpoint that no loop reads is not observable)
Deliver(s) ==
    /\ s \in conn
    /\ Running(ReaderOf(s))
    /\ Len(inq[s]) < MaxQueue
    /\ \E p \in traffic :
          inq' = [inq EXCEPT ![s] = Append(@, p)]
    /\ UNCHANGED <<cfg, traffic, force_break, now, opc, conn, thrown, added, raised, logged>>
    /\ UNCHANGED ovars
    /\ UNCHANGED lvars

\* ---- route(): the forwarding loop (route.cpp:39-70) ---------------------

\* line 49: while (!force_break); leaving the loop returns from route(), and
\* the forward call returns into run() at line 127; bytes_sent and the log
\* entry of the body that has ended are behind
RouteTest(d) ==
    /\ lpc[d] = "test"
    /\ IF force_break
          THEN /\ lpc' = [lpc EXCEPT ![d] = "done"]
               /\ buffer' = [buffer EXCEPT ![d] = <<>>]
               /\ opc' = IF d = "fwd" THEN "wait" ELSE opc
          ELSE /\ lpc' = [lpc EXCEPT ![d] = "read"]
               /\ UNCHANGED <<buffer, opc>>
    /\ bytes_sent' = [bytes_sent EXCEPT ![d] = -1]
    /\ event' = [event EXCEPT ![d] = "none"]
    /\ UNCHANGED <<cfg, traffic, force_break, now, conn, thrown, inq, added, raised, logged,
                   bytes_read, pending, intact, allFull>>
    /\ UNCHANGED ovars

\* RouteReadData under a lock that the other route() holds while it reads
RouteReadDataSerial(d) ==
    /\ lpc[d] = "read"
    /\ lpc[Other(d)] # "read"
    /\ inq[SrcOf(d)] # <<>>
    /\ LET msg == Head(inq[SrcOf(d)]) IN
          /\ buffer' = [buffer EXCEPT ![d] = ReadInto(@, msg)]
          /\ bytes_read' = [bytes_read EXCEPT ![d] = Len(msg)]
          /\ pending' = [pending EXCEPT ![d] = Append(@, msg)]
    /\ inq' = [inq EXCEPT ![SrcOf(d)] = Tail(@)]
    /\ lpc' = [lpc EXCEPT ![d] = "write"]
    /\ UNCHANGED <<cfg, traffic, force_break, now, opc, conn, thrown, added, raised, logged,
                   bytes_sent, event, intact, allFull>>
    /\ UNCHANGED ovars

\* line 51: read() returns a message; lines 54-58 do not apply to it
RouteReadData(d) ==
    /\ lpc[d] = "read"
    /\ inq[SrcOf(d)] # <<>>
    /\ LET msg == Head(inq[SrcOf(d)]) IN
          /\ buffer' = [buffer EXCEPT ![d] = ReadInto(@, msg)]
          /\ bytes_read' = [bytes_read EXCEPT ![d] = Len(msg)]
          /\ pending' = [pending EXCEPT ![d] = Append(@, msg)]
    /\ inq' = [inq EXCEPT ![SrcOf(d)] = Tail(@)]
    /\ lpc' = [lpc EXCEPT ![d] = "write"]
    /\ UNCHANGED <<cfg, traffic, force_break, now, opc, conn, thrown, added, raised, logged,
                   bytes_sent, event, intact, allFull>>
    /\ UNCHANGED ovars

\* RouteReadZero that takes a read of 0 bytes for the end of the stream and
\* returns from route()
RouteReadZeroEof(d) ==
    /\ lpc[d] = "read"
    /\ inq[SrcOf(d)] = <<>>
    /\ bytes_read' = [bytes_read EXCEPT ![d] = 0]
    /\ event' = [event EXCEPT ![d] = "zero"]
    /\ lpc' = [lpc EXCEPT ![d] = "done"]
    /\ opc' = IF d = "fwd" THEN "wait" ELSE opc
    /\ UNCHANGED <<cfg, traffic, force_break, now, conn, thrown, inq, added, raised, logged,
                   buffer, bytes_sent, pending, intact, allFull>>
    /\ UNCHANGED ovars

\* lines 51, 54-58: read() returns 0 although no message is there; the loop
\* logs "read 0 bytes" and continues
RouteReadZero(d) ==
    /\ lpc[d] = "read"
    /\ inq[SrcOf(d)] = <<>>
    /\ bytes_read' = [bytes_read EXCEPT ![d] = 0]
    /\ event' = [event EXCEPT ![d] = "zero"]
    /\ lpc' = [lpc EXCEPT ![d] = "test"]
    /\ UNCHANGED <<cfg, traffic, force_break, now, opc, conn, thrown, inq, added, raised, logged,
                   buffer, bytes_sent, pending, intact, allFull>>
    /\ UNCHANGED ovars

\* RouteRaise where an exception of either route() call unwinds run()
RouteRaiseAbortsRun(d) ==
    /\ lpc' = [lpc EXCEPT ![d] = "failed"]
    /\ buffer' = [buffer EXCEPT ![d] = <<>>]
    /\ bytes_read' = [bytes_read EXCEPT ![d] = 0]
    /\ raised' = raised \cup {d}
    /\ opc' = "unwind"
    /\ thrown' = d
    /\ UNCHANGED <<cfg, traffic, force_break, now, conn, inq, added, logged,
                   bytes_sent, event, pending, intact, allFull>>
    /\ UNCHANGED ovars

\* socket::exception leaves route(): the forward call unwinds into run(), the
\* backward one ends its task and the exception stays in the future
RouteRaise(d) ==
    /\ lpc' = [lpc EXCEPT ![d] = "failed"]
    /\ buffer' = [buffer EXCEPT ![d] = <<>>]
    /\ bytes_read' = [bytes_read EXCEPT ![d] = 0]
    /\ raised' = raised \cup {d}
    /\ opc' = IF d = "fwd" THEN "unwind" ELSE opc
    /\ thrown' = IF d = "fwd" THEN "fwd" ELSE thrown
    /\ UNCHANGED <<cfg, traffic, force_break, now, conn, inq, added, logged,
                   bytes_sent, event, pending, intact, allFull>>
    /\ UNCHANGED ovars

\* line 51: read() raises
RouteReadRaise(d) ==
    /\ lpc[d] = "read"
    /\ RouteRaise(d)

\* RouteWrite that calls write() again for the same message when the count
\* reported is short
RouteWriteRetry(d) ==
    /\ lpc[d] = "write"
    /\ LET data == ConstBuffer(buffer[d], bytes_read[d]) IN
       \E n \in 0..Len(data) :
          /\ bytes_sent' = [bytes_sent EXCEPT ![d] = n]
          /\ event' = [event EXCEPT ![d] = IF n # bytes_read[d] THEN "short" ELSE "none"]
          /\ LET sent == SubSeq(data, 1, n) IN
                /\ intact' = [intact EXCEPT ![d] =
                                 @ /\ pending[d] # <<>> /\ sent = Head(pending[d])]
                /\ pending' = [pending EXCEPT ![d] =
                                  IF n # bytes_read[d] \/ @ = <<>> THEN @ ELSE Tail(@)]
          /\ allFull' = [allFull EXCEPT ![d] = @ /\ n = bytes_read[d]]
          /\ bytes_read' = [bytes_read EXCEPT ![d] = IF n # @ THEN @ ELSE 0]
          /\ lpc' = [lpc EXCEPT ![d] = IF n # bytes_read[d] THEN "write" ELSE "test"]
    /\ UNCHANGED <<cfg, traffic, force_break, now, opc, conn, thrown, inq, added, raised, logged,
                   buffer>>
    /\ UNCHANGED ovars

\* lines 61-68: write() takes the first bytes_sent bytes and reports them; a
\* count other than bytes_read is logged and the loop continues; bytes_read
\* goes out of scope at the end of the loop body
RouteWrite(d) ==
    /\ lpc[d] = "write"
    /\ LET data == ConstBuffer(buffer[d], bytes_read[d]) IN
       \E n \in 0..Len(data) :
          /\ bytes_sent' = [bytes_sent EXCEPT ![d] = n]
          /\ event' = [event EXCEPT ![d] = IF n # bytes_read[d] THEN "short" ELSE "none"]
          /\ LET sent == SubSeq(data, 1, n) IN
                /\ intact' = [intact EXCEPT ![d] =
                                 @ /\ pending[d] # <<>> /\ sent = Head(pending[d])]
                /\ pending' = [pending EXCEPT ![d] = IF @ = <<>> THEN @ ELSE Tail(@)]
          /\ allFull' = [allFull EXCEPT ![d] = @ /\ n = bytes_read[d]]
    /\ bytes_read' = [bytes_read EXCEPT ![d] = 0]
    /\ lpc' = [lpc EXCEPT ![d] = "test"]
    /\ UNCHANGED <<cfg, traffic, force_break, now, opc, conn, thrown, inq, added, raised, logged,
                   buffer>>
    /\ UNCHANGED ovars

\* line 61: write() raises
RouteWriteRaise(d) ==
    /\ lpc[d] = "write"
    /\ RouteRaise(d)

RouteStep(d) ==
    \/ RouteTest(d)
    \/ RouteReadData(d)
    \/ RouteReadZero(d)
    \/ RouteReadRaise(d)
    \/ RouteWrite(d)
    \/ RouteWriteRaise(d)

\* ---- create_connection (declared in misc.hpp) ---------------------------

\* The outcomes of create_connection(urls, slot): no endpoint (it raises
\* socket::exception) or an endpoint, with the slot left as it was (caller)
\* or holding the listener that accepted the connection.
CreateConnection(slot) ==
    {[ok |-> FALSE, slot |-> slot]}
      \cup {[ok |-> TRUE, slot |-> s] :
               s \in IF slot = "listener" THEN {"listener"} ELSE {"empty", "listener"}}

\* ---- undefined behaviour in run() ---------------------------------------

\* route_bkwd.wait() on a default-constructed future (valid() == false):
\* it returns, throws std::future_error (libstdc++, MSVC) or faults (libc++)
InvalidFutureWait == {"returns", "throws", "crashes"}

\* stats->remove_socket(...) through a null unique_ptr
NullStatsCall == {"returns", "crashes"}

\* ---- run(): the orchestrator (route.cpp:75-138) -------------------------

\* the locals of the try block go out of scope: the endpoints and the sampler
\* are released, whatever their peers had sent is gone with them
ReleaseAttempt ==
    /\ stats' = FALSE
    /\ conn' = {}
    /\ inq' = [s \in Sides |-> <<>>]
    /\ bytes_read' = [d \in Dirs |-> 0]
    /\ bytes_sent' = [d \in Dirs |-> -1]
    /\ event' = [d \in Dirs |-> "none"]
    /\ pending' = [d \in Dirs |-> <<>>]
    /\ intact' = [d \in Dirs |-> TRUE]
    /\ allFull' = [d \in Dirs |-> TRUE]

\* lines 94-97: a new iteration reads the clock and decides whether to sleep
RateLimit ==
    /\ opc = "iter_top"
    /\ iter' = iter + 1
    /\ tnow' = now
    /\ opc' = IF now < next_reconnect THEN "sleep" ELSE "schedule"
    /\ raised' = {}
    /\ logged' = {}
    /\ UNCHANGED <<cfg, traffic, force_break, now, next_reconnect, stats, src_sock, dst_sock,
                   conn, thrown, inq, added, connStart>>
    /\ UNCHANGED lvars

\* line 98: this_thread::sleep_until(next_reconnect) returns
SleepUntil ==
    /\ opc = "sleep"
    /\ now >= next_reconnect
    /\ opc' = "schedule"
    /\ UNCHANGED <<cfg, traffic, force_break, now, conn, thrown, inq, added, raised, logged>>
    /\ UNCHANGED ovars
    /\ UNCHANGED lvars

\* lines 100-108: the next deadline, the sampler if one is configured, and the
\* call of create_connection for the destination, where the connection step begins
Schedule ==
    /\ opc = "schedule"
    /\ next_reconnect' = tnow + Second
    /\ stats' = WriteStats(cfg)
    /\ connStart' = now
    /\ opc' = "conn_dst"
    /\ UNCHANGED <<cfg, traffic, force_break, now, tnow, iter, src_sock, dst_sock, conn, thrown,
                   inq, added, raised, logged>>
    /\ UNCHANGED lvars

\* ConnectDst where a failure to connect the destination is passed over and
\* the source is connected all the same
ConnectDstLenient ==
    /\ opc = "conn_dst"
    /\ \E r \in CreateConnection(dst_sock) :
          /\ dst_sock' = r.slot
          /\ conn' = IF r.ok THEN conn \cup {"dst"} ELSE conn
          /\ opc' = "conn_src"
          /\ UNCHANGED <<thrown, raised>>
    /\ UNCHANGED <<cfg, traffic, force_break, now, tnow, next_reconnect, iter, stats, src_sock,
                   inq, added, logged, connStart>>
    /\ UNCHANGED lvars

\* line 108: create_connection(parsed_dst_urls, dst_sock) returns or raises
ConnectDst ==
    /\ opc = "conn_dst"
    /\ \E r \in CreateConnection(dst_sock) :
          /\ dst_sock' = r.slot
          /\ IF r.ok
                THEN /\ conn' = conn \cup {"dst"}
                     /\ opc' = "conn_src"
                     /\ UNCHANGED <<thrown, raised>>
                ELSE /\ opc' = "unwind"
                     /\ thrown' = "conn"
                     /\ raised' = raised \cup {"conn"}
                     /\ UNCHANGED conn
    /\ UNCHANGED <<cfg, traffic, force_break, now, tnow, next_reconnect, iter, stats, src_sock,
                   inq, added, logged, connStart>>
    /\ UNCHANGED lvars

\* line 109: create_connection(parsed_src_urls, src_sock) returns or raises
ConnectSrc ==
    /\ opc = "conn_src"
    /\ \E r \in CreateConnection(src_sock) :
          /\ src_sock' = r.slot
          /\ IF r.ok
                THEN /\ conn' = conn \cup {"src"}
                     /\ opc' = "reset"
                     /\ UNCHANGED <<thrown, raised>>
                ELSE /\ opc' = "unwind"
                     /\ thrown' = "conn"
                     /\ raised' = raised \cup {"conn"}
                     /\ UNCHANGED conn
    /\ UNCHANGED <<cfg, traffic, force_break, now, tnow, next_reconnect, iter, stats, dst_sock,
                   inq, added, logged, connStart>>
    /\ UNCHANGED lvars

\* ResetSlots with the test of line 112 inverted
ResetSlotsIfReconnect ==
    /\ opc = "reset"
    /\ src_sock' = IF cfg.reconnect THEN "empty" ELSE src_sock
    /\ dst_sock' = "empty"
    /\ opc' = "add_src"
    /\ UNCHANGED <<cfg, traffic, force_break, now, tnow, next_reconnect, iter, stats, conn, thrown,
                   inq, added, raised, logged, connStart>>
    /\ UNCHANGED lvars

\* lines 112-114: only src_sock.reset() is under the if; dst_sock.reset() is not
ResetSlots ==
    /\ opc = "reset"
    /\ src_sock' = IF ~cfg.reconnect THEN "empty" ELSE src_sock
    /\ dst_sock' = "empty"
    /\ opc' = "add_src"
    /\ UNCHANGED <<cfg, traffic, force_break, now, tnow, next_reconnect, iter, stats, conn, thrown,
                   inq, added, raised, logged, connStart>>
    /\ UNCHANGED lvars

\* lines 116-118: stats->add_socket(src)
AddSocketSrc ==
    /\ opc = "add_src"
    /\ IF stats
          THEN /\ added' = added \cup {Id("src")}
               /\ opc' = "add_dst"
          ELSE /\ opc' = "launch"
               /\ UNCHANGED added
    /\ UNCHANGED <<cfg, traffic, force_break, now, conn, thrown, inq, raised, logged>>
    /\ UNCHANGED ovars
    /\ UNCHANGED lvars

\* line 119: stats->add_socket(dst)
AddSocketDst ==
    /\ opc = "add_dst"
    /\ added' = added \cup {Id("dst")}
    /\ opc' = "launch"
    /\ UNCHANGED <<cfg, traffic, force_break, now, conn, thrown, inq, raised, logged>>
    /\ UNCHANGED ovars
    /\ UNCHANGED lvars

\* lines 122-126: the backward route() starts in its own thread when cfg.bidir,
\* and the forward route() is entered on this thread
Launch ==
    /\ opc = "launch"
    /\ lpc' = [d \in Dirs |-> IF d = "fwd" \/ cfg.bidir THEN "test" ELSE "idle"]
    /\ buffer' = [d \in Dirs |-> IF d = "fwd" \/ cfg.bidir
                                    THEN ZeroBuffer(cfg.message_size) ELSE <<>>]
    /\ opc' = "route"
    /\ UNCHANGED <<cfg, traffic, force_break, now, conn, thrown, inq, added, raised, logged,
                   bytes_read, bytes_sent, event, pending, intact, allFull>>
    /\ UNCHANGED ovars

\* JoinBkwd that does not wait for the backward route()
JoinBkwdNoWait ==
    /\ opc = "wait"
    /\ opc' = "remove_src"
    /\ UNCHANGED <<stats, conn, inq, bytes_read, bytes_sent, event,
                                      pending, intact, allFull>>
    /\ UNCHANGED <<cfg, traffic, force_break, now, tnow, next_reconnect, iter, src_sock, dst_sock,
                   thrown, added, raised, logged, connStart, lpc, buffer>>

\* line 127: route_bkwd.wait() blocks until the backward route() has ended; an
\* exception stored in the future is not rethrown by wait()
JoinBkwd ==
    /\ opc = "wait"
    /\ IF cfg.bidir
          THEN /\ ~Running("bkwd")
               /\ opc' = "remove_src"
               /\ UNCHANGED <<stats, conn, inq, bytes_read, bytes_sent, event,
                                      pending, intact, allFull>>
          ELSE \E outcome \in InvalidFutureWait :
                  CASE outcome = "returns" ->
                          /\ opc' = "remove_src"
                          /\ UNCHANGED <<stats, conn, inq, bytes_read, bytes_sent, event,
                                      pending, intact, allFull>>
                    [] outcome = "throws" ->
                          \* std::future_error is no socket::exception: it leaves run()
                          /\ opc' = "escaped"
                          /\ ReleaseAttempt
                    [] outcome = "crashes" ->
                          /\ opc' = "crashed"
                          /\ UNCHANGED <<stats, conn, inq, bytes_read, bytes_sent, event,
                                      pending, intact, allFull>>
    /\ UNCHANGED <<cfg, traffic, force_break, now, tnow, next_reconnect, iter, src_sock, dst_sock,
                   thrown, added, raised, logged, connStart, lpc, buffer>>

\* lines 129-130: if (stats) stats->remove_socket(src->id())
RemoveSocketSrc ==
    /\ opc = "remove_src"
    /\ added' = IF stats THEN added \ {Id("src")} ELSE added
    /\ opc' = "remove_dst"
    /\ UNCHANGED <<cfg, traffic, force_break, now, conn, thrown, inq, raised, logged>>
    /\ UNCHANGED ovars
    /\ UNCHANGED lvars

\* line 131: stats->remove_socket(dst->id()) is not under the if; then the try
\* block ends
RemoveSocketDst ==
    /\ opc = "remove_dst"
    /\ IF stats
          THEN /\ added' = added \ {Id("dst")}
               /\ opc' = "while"
               /\ ReleaseAttempt
          ELSE \E outcome \in NullStatsCall :
                  CASE outcome = "returns" ->
                          /\ opc' = "while"
                          /\ ReleaseAttempt
                          /\ UNCHANGED added
                    [] outcome = "crashes" ->
                          /\ opc' = "crashed"
                          /\ UNCHANGED <<added, stats, conn, inq, bytes_read, bytes_sent, event,
                                      pending, intact, allFull>>
    /\ UNCHANGED <<cfg, traffic, force_break, now, tnow, next_reconnect, iter, src_sock, dst_sock,
                   thrown, raised, logged, connStart, lpc, buffer>>

\* Catch where the destructor of route_bkwd does not block
CatchDetached ==
    /\ opc = "unwind"
    /\ logged' = logged \cup {thrown}
    /\ thrown' = "none"
    /\ opc' = "while"
    /\ ReleaseAttempt
    /\ UNCHANGED <<cfg, traffic, force_break, now, tnow, next_reconnect, iter, src_sock, dst_sock,
                   added, raised, connStart, lpc, buffer>>

\* lines 133-136: unwinding destroys route_bkwd first (the destructor of a
\* future from std::async blocks until the task has ended), then the endpoints
\* and the sampler; the handler logs the exception
Catch ==
    /\ opc = "unwind"
    /\ ~Running("bkwd")
    /\ logged' = logged \cup {thrown}
    /\ thrown' = "none"
    /\ opc' = "while"
    /\ ReleaseAttempt
    /\ UNCHANGED <<cfg, traffic, force_break, now, tnow, next_reconnect, iter, src_sock, dst_sock,
                   added, raised, connStart, lpc, buffer>>

\* line 137: while (cfg.reconnect && !force_break)
LoopCond ==
    /\ opc = "while"
    /\ IF cfg.reconnect /\ ~force_break
          THEN /\ iter < MaxIter
               /\ opc' = "iter_top"
          ELSE opc' = "done"
    /\ UNCHANGED <<cfg, traffic, force_break, now, conn, thrown, inq, added, raised, logged>>
    /\ UNCHANGED ovars
    /\ UNCHANGED lvars

\* ---- specifications -----------------------------------------------------

RunStep ==
    \/ RateLimit
    \/ SleepUntil
    \/ Schedule
    \/ ConnectDst
    \/ ConnectSrc
    \/ ResetSlots
    \/ AddSocketSrc
    \/ AddSocketDst
    \/ Launch
    \/ JoinBkwd
    \/ RemoveSocketSrc
    \/ RemoveSocketDst
    \/ Catch
    \/ LoopCond

Next ==
    \/ Cancel
    \/ Tick
    \/ \E s \in Sides : Deliver(s)
    \/ \E d \in Dirs : RouteStep(d)
    \/ RunStep

Spec == Init /\ [][Next]_vars

\* route() alone: one call, its source endpoint and the cancellation flag
NextRoute ==
    \/ Cancel
    \/ Deliver("src")
    \/ RouteStep("fwd")

SpecRoute == InitRoute /\ [][NextRoute]_vars

\* the steps a route() call takes by itself once its blocking call can return
LoopProgress(d) ==
    \/ RouteTest(d)
    \/ RouteReadData(d)
    \/ RouteWrite(d)
    \/ RouteWriteRaise(d)

\* Fair scheduling: the thread of run() and the thread of each route() take
\* their next step when they can, and the clock advances.  Nothing obliges a
\* peer to send, an endpoint to fail or the caller to cancel.
FairSpec ==
    /\ Spec
    /\ WF_vars(RunStep)
    /\ WF_vars(Tick)
    /\ \A d \in Dirs : WF_vars(LoopProgress(d))

\* a read() that is blocked when cancellation has been requested returns or raises
ReadUnblock(d) == force_break /\ (RouteReadZero(d) \/ RouteReadRaise(d))

\* FairSpec, with every blocking endpoint call returning once cancellation has
\* been requested
CancelSpec ==
    /\ FairSpec
    /\ \A d \in Dirs : WF_vars(ReadUnblock(d))

\* the two route() calls of one bidirectional iteration, their endpoints and
\* the cancellation flag, under fair scheduling of the two threads
NextDuplex ==
    \/ Cancel
    \/ \E s \in Sides : Deliver(s)
    \/ \E d \in Dirs : RouteStep(d)

SpecDuplex ==
    /\ InitDuplex
    /\ [][NextDuplex]_vars
    /\ \A d \in Dirs : WF_vars(LoopProgress(d))

\* ---- claims -------------------------------------------------------------

\* C1: while every write() of a route() call has reported the full length,
\* each write put on the wire exactly the oldest message read and not yet
\* written (same payloads, same order, each once), and no read is issued
\* while a message read earlier is still unwritten.
C1_RelayInOrder ==
    \A d \in Dirs :
        allFull[d] =>
            /\ intact[d]
            /\ Len(pending[d]) <= 1
            /\ lpc[d] \in {"test", "read", "done"} => pending[d] = <<>>

\* a non-zero message has been relayed in full, the loop is back in read()
\* and the next message is waiting
C1_Witness ==
    /\ lpc["fwd"] = "read"
    /\ allFull["fwd"]
    /\ buffer["fwd"] = <<1, 1>>
    /\ inq["src"] # <<>>

\* C2: once the cancellation flag is set, run() eventually returns (every
\* blocked endpoint call returns or raises after cancellation, scheduling is
\* fair), for every combination of bidir and reconnect.
C2_CancelLeadsToReturn == force_break ~> (opc = "done")

\* C3: with reconnect, the rate-limit step of a later iteration finishes -
\* and the connection step begins - at least one second after the connection
\* step of the iteration before began, and it sets the next deadline to the
\* time at which it finished waiting plus one second.
C3_ReconnectSpacing ==
    [][(opc = "schedule" /\ opc' = "conn_dst" /\ iter > 1) =>
           /\ now - connStart >= Second
           /\ next_reconnect' = now + Second]_vars

\* C4: with reconnect and no cancellation, an endpoint error raised in an
\* iteration (by the connection step or by either route()) leads to the
\* start of the next iteration.
C4_ErrorLeadsToRetry ==
    \A k \in 1..(MaxIter - 1) :
        (cfg.reconnect /\ iter = k /\ raised # {}) ~> (force_break \/ iter > k)

\* C5: when an iteration is over, every endpoint error raised in it (by the
\* connection step, the forward or the backward route()) has been logged
\* with spdlog::error.
C5_EveryErrorLogged ==
    opc \in {"while", "done"} => raised \subseteq logged

\* C6: with bidir, a route() whose read() has a message to return gets to its
\* write() (unless its own endpoint raises) while the read() of the other
\* route() stays blocked, and its write() then completes; for both directions.
C6_IndependentProgress ==
    \A d \in Dirs :
        /\ (/\ lpc[d] = "read" /\ inq[SrcOf(d)] # <<>>
            /\ lpc[Other(d)] = "read" /\ inq[SrcOf(Other(d))] = <<>>)
              ~> (lpc[d] \in {"write", "failed"})
        /\ (lpc[d] = "write") ~> (lpc[d] \in {"test", "failed"})

\* the backward route() has read a message and is in write() while the
\* forward route() is blocked in read() with nothing to read
C6_Witness ==
    /\ cfg.bidir
    /\ lpc["bkwd"] = "write"
    /\ lpc["fwd"] = "read"
    /\ inq["src"] = <<>>

\* C7: at most two endpoints are registered (add_socket called, remove_socket
\* not yet), they are endpoints of the current iteration, and none is
\* registered once the iteration is over.
C7_RegistrationCount ==
    /\ Cardinality(added) <= 2
    /\ added \subseteq {Id("src"), Id("dst")}
    /\ opc \in {"while", "iter_top", "done"} => added = {}

\* C8: while a sampler exists and a route() of the iteration is running, both
\* endpoints of the iteration are registered: add_socket was called for both
\* before the first read, remove_socket for neither.
C8_RegisteredWhileRouting ==
    (stats /\ \E d \in Dirs : Running(d)) => {Id("src"), Id("dst")} \subseteq added

\* with bidir and a sampler, both route() calls have ended and remove_socket
\* has been called for the source endpoint, not yet for the destination
C8_Witness ==
    /\ cfg.bidir
    /\ stats
    /\ opc = "remove_dst"
    /\ lpc["fwd"] = "done"
    /\ lpc["bkwd"] \in {"done", "failed"}
    /\ added = {Id("dst")}

\* C9: when an iteration is over, the next one starts if reconnect is set and
\* the flag is not, and run() returns otherwise; run() is never left in
\* another way, and without reconnect there is one iteration only.
C9_LoopTermination ==
    [][/\ opc = "while" =>
             opc' \in {"while", IF cfg.reconnect /\ ~force_break THEN "iter_top" ELSE "done"}
       /\ opc' \notin {"escaped", "crashed"}
       /\ ~cfg.reconnect => iter' <= 1]_vars

\* C10: a sleep_until in progress can return as soon as the flag is set,
\* whatever time is left to the deadline.
C10_SleepInterruptible ==
    (opc = "sleep" /\ force_break) => ENABLED SleepUntil

\* C11 (as stated): a read() of 0 bytes is followed by no write() and, at
\* once, by another read() on the same endpoint, never by the end of the loop.
C11_ZeroReadNeverExits ==
    [][\A d \in Dirs :
         /\ (lpc[d] = "read" /\ lpc'[d] \notin {"read", "failed"} /\ bytes_read'[d] = 0) =>
               /\ lpc'[d] = "test"
               /\ event'[d] = "zero"
               /\ UNCHANGED <<pending, intact, allFull, bytes_sent>>
         /\ (lpc[d] = "test" /\ event[d] = "zero" /\ lpc'[d] # "test") =>
               lpc'[d] = "read"]_vars

\* C11: a read() of 0 bytes is logged and followed by no write(): the loop
\* goes back to its test, from where the next step is another read() on the
\* same endpoint when the flag is not set and the return from route() when it
\* is; so after each of any number of reads of 0 bytes.
C11_ZeroReadRetries ==
    [][\A d \in Dirs :
         /\ (lpc[d] = "read" /\ lpc'[d] \notin {"read", "failed"} /\ bytes_read'[d] = 0) =>
               /\ lpc'[d] = "test"
               /\ event'[d] = "zero"
               /\ UNCHANGED <<pending, intact, allFull, bytes_sent>>
         /\ (lpc[d] = "test" /\ event[d] = "zero" /\ lpc'[d] # "test") =>
               lpc'[d] = (IF force_break THEN "done" ELSE "read")]_vars

\* the forward loop is back at its test after a read() of 0 bytes, the flag
\* not set
C11_Witness ==
    /\ lpc["fwd"] = "test"
    /\ event["fwd"] = "zero"
    /\ ~force_break

\* C12: a write() that reports a count other than bytes_read is logged and
\* raises nothing; the loop goes back to its test, and its next call on an
\* endpoint, if any, is a read(): a write() is only ever called with a whole
\* message that read() has just returned.
C12_ShortWriteDropsTail ==
    [][\A d \in Dirs :
         /\ (lpc[d] = "write" /\ bytes_sent'[d] >= 0 /\ bytes_sent'[d] # bytes_read[d]) =>
               /\ lpc'[d] = "test"
               /\ event'[d] = "short"
               /\ UNCHANGED <<raised, thrown, opc>>
         /\ (lpc[d] = "test" /\ event[d] = "short" /\ lpc'[d] # "test") =>
               lpc'[d] \in {"read", "done"}
         /\ (lpc[d] # "write" /\ lpc'[d] = "write") =>
               /\ lpc[d] = "read"
               /\ inq[SrcOf(d)] # <<>>
               /\ ConstBuffer(buffer'[d], bytes_read'[d]) = Head(inq[SrcOf(d)])]_vars

\* the forward loop is back at its test after a write() that took 1 byte of 2
C12_Witness ==
    /\ lpc["fwd"] = "test"
    /\ event["fwd"] = "short"
    /\ bytes_sent["fwd"] = 1
    /\ ~intact["fwd"]

\* C13: control comes to the remove_socket call for the destination endpoint
\* (line 131) only when a sampler exists and add_socket was called for that
\* endpoint: without a sampler run() calls remove_socket never.
C13_RemoveOnlyWithSampler ==
    opc = "remove_dst" => (stats /\ Id("dst") \in added)

\* C14: with reconnect, no step of run() takes a listener out of a slot: what
\* create_connection left there in one iteration is there when the slot is
\* passed to create_connection in the next, for source and destination alike.
C14_SlotsKeptOnReconnect ==
    [][cfg.reconnect =>
         /\ (src_sock = "listener" => src_sock' = "listener")
         /\ (dst_sock = "listener" => dst_sock' = "listener")]_vars

\* C15: without reconnect, once both connections are there, both slots are
\* empty before add_socket is called for an endpoint and before a route() of
\* the iteration starts, and stay so while one runs.
C15_SlotsClearedOneShot ==
    (/\ ~cfg.reconnect
     /\ \/ opc \in {"add_src", "add_dst", "launch", "route"}
        \/ \E d \in Dirs : Running(d)
        \/ added # {})
        => (src_sock = "empty" /\ dst_sock = "empty")

\* without reconnect and with a sampler, both endpoints are registered and the
\* forward route() is about to read
C15_Witness ==
    /\ ~cfg.reconnect
    /\ stats
    /\ conn = Sides
    /\ added = {Id("src"), Id("dst")}
    /\ lpc["fwd"] = "read"

\* C16: the flag is tested before each iteration, the first included: with
\* the flag set where an iteration would begin, run() does not go into the
\* iteration (whose next call but the clock is create_connection).
C16_CancelTestedBeforeIteration ==
    [][(opc = "iter_top" /\ force_break) => opc' \notin {"sleep", "schedule"}]_vars

\* C17: create_connection for the source is called only after the one for the
\* destination has returned an endpoint: there is no source endpoint without
\* a destination endpoint, and when the destination call raises the source
\* call is not made and the source slot is as it was.
C17_DestinationFirst ==
    [][/\ opc' = "conn_src" => "dst" \in conn'
       /\ "src" \in conn' => "dst" \in conn'
       /\ (opc = "conn_dst" /\ opc' = "unwind") =>
             ("src" \notin conn' /\ src_sock' = src_sock /\ conn' = {})
       /\ (src_sock' # src_sock /\ src_sock' # "empty") => "dst" \in conn]_vars

\* the destination is connected and create_connection for the source is next
C17_Witness ==
    /\ opc = "conn_src"
    /\ conn = {"dst"}

\* C18: a backward route() exists if and only if bidir is set; without bidir,
\* when the forward route() has returned, run() goes on to the remove_socket
\* step: it neither waits nor raises nor stops.
C18_NoTaskWithoutBidir ==
    [][/\ lpc'["bkwd"] # "idle" => cfg.bidir
       /\ (cfg.bidir /\ opc' = "route") => lpc'["bkwd"] # "idle"
       /\ (~cfg.bidir /\ opc = "wait") => opc' \in {"wait", "remove_src"}]_vars

\* C19: no route() of an iteration is running when run() is outside the part
\* that routes: not when the iteration is over, not when the next one
\* connects, not when run() has returned; so too when the forward route()
\* raised while the backward one was running.
C19_OneAttemptAtATime ==
    opc \in {"while", "iter_top", "sleep", "schedule", "conn_dst", "conn_src", "reset",
             "add_src", "add_dst", "launch", "done", "escaped"}
        => \A d \in Dirs : ~Running(d)

\* with bidir the forward route() raised, the backward one has returned on the
\* flag since, and the iteration is over
C19_Witness ==
    /\ cfg.bidir
    /\ opc = "while"
    /\ lpc["fwd"] = "failed"
    /\ lpc["bkwd"] = "done"
    /\ "fwd" \in logged

\* C20: while the backward route() has ended by an exception and the forward
\* one is running, run() is where it was, inside the forward route(): nothing
\* is thrown in run(), both endpoints are connected and, with a sampler,
\* registered; the step that raises in the backward route() changes nothing
\* of run()'s.
C20_BackwardErrorUnnoticed ==
    [][/\ (lpc'["bkwd"] = "failed" /\ Running("fwd")') =>
             /\ opc' = "route"
             /\ thrown' = "none"
             /\ conn' = Sides
             /\ stats' => {Id("src"), Id("dst")}' \subseteq added'
       /\ (lpc["bkwd"] # "failed" /\ lpc'["bkwd"] = "failed") =>
             UNCHANGED <<opc, thrown, conn, added, stats, logged, lpc["fwd"],
                         buffer["fwd"], bytes_read["fwd"], pending["fwd"]>>]_vars

\* with a sampler, the backward route() has raised and the forward one goes
\* on: it holds a message and is about to write it
C20_Witness ==
    /\ lpc["bkwd"] = "failed"
    /\ lpc["fwd"] = "write"
    /\ opc = "route"
    /\ stats

====
